---- MODULE Spec2Model ----
(***************************************************************************)
(* Delivery-person assignment from an uploaded spreadsheet                 *)
(* (src/src/assignentmat/h.ts): parseExcelFile, validateAssignments,       *)
(* assignDeliveryPersonToOrder, assignMultipleDeliveryPersons and          *)
(* assignDeliveryPersonsFromExcel, run against an order store with         *)
(* optimistic versioning.                                                  *)
(*                                                                         *)
(* JavaScript strings are sequences of one-character strings, so that      *)
(* String(), trim() and template literals are computed, not assumed.       *)
(***************************************************************************)
EXTENDS Integers, Sequences, FiniteSets, TLC

\* ------------------------------------------------------------------ bounds

\* Longest spreadsheet (number of data rows) a batch is run on.
MaxRows == 3

\* Longest assignment list validateAssignments is applied to on its own.
MaxLen == 3

\* Writes made to the store by parties other than the batches.
MaxExternalWrites == 1

\* Longest spreadsheet of each of two batches run at the same time.
MaxConcRows == 2

\* The most rows of a spreadsheet whose batch is followed to its end.
MaxLiveRows == 2

\* ----------------------------------------------------------------- strings

S_ORD1 == <<"O", "R", "D", "-", "1">>
S_ORD2 == <<"O", "R", "D", "-", "2">>
S_ORD3 == <<"O", "R", "D", "-", "3">>
S_D1 == <<"D", "-", "1">>
S_D2 == <<"D", "-", "2">>
S_DX == <<"D", "-", "X">>
S_Empty == << >>
S_Blank == <<" ">>
S_undefined == <<"u", "n", "d", "e", "f", "i", "n", "e", "d">>
S_OrderNotFound ==
    <<"O", "r", "d", "e", "r", " ", "n", "o", "t", " ",
      "f", "o", "u", "n", "d", ":", " ">>
S_ExcelParsingFailed ==
    <<"E", "x", "c", "e", "l", " ", "p", "a", "r", "s", "i", "n", "g", " ",
      "f", "a", "i", "l", "e", "d", ":", " ">>
S_BadFile == <<"b", "a", "d", " ", "f", "i", "l", "e">>
S_Network == <<"n", "e", "t", "w", "o", "r", "k">>
S_Timeout == <<"t", "i", "m", "e", "o", "u", "t">>
S_Conflict == <<"v", "e", "r", "s", "i", "o", "n", " ",
                "c", "o", "n", "f", "l", "i", "c", "t">>

\* Characters String.prototype.trim removes.
WhiteSpace == {" ", "\t", "\n", "\r"}

RECURSIVE TrimStart(_)
TrimStart(s) ==
    IF s # << >> /\ Head(s) \in WhiteSpace THEN TrimStart(Tail(s)) ELSE s

RECURSIVE TrimEnd(_)
TrimEnd(s) ==
    IF s # << >> /\ s[Len(s)] \in WhiteSpace
    THEN TrimEnd(SubSeq(s, 1, Len(s) - 1))
    ELSE s

\* String.prototype.trim
Trim(s) == TrimEnd(TrimStart(s))

\* ----------------------------------------------------- JavaScript values

\* The values a decoded cell (or a missing key) can hold.
Undefined == [t |-> "undefined"]
Str(s) == [t |-> "string", s |-> s]
Num(n) == [t |-> "number", n |-> n]

\* JavaScript truthiness: undefined, '' and 0 are falsy.
Truthy(v) ==
    CASE v.t = "undefined" -> FALSE
      [] v.t = "string" -> v.s # << >>
      [] v.t = "number" -> v.n # 0

\* a || b
OrElse(a, b) == IF Truthy(a) THEN a ELSE b

DigitChars == <<"0", "1", "2", "3", "4", "5", "6", "7", "8", "9">>

RECURSIVE NatToString(_)
NatToString(n) ==
    IF n < 10 THEN <<DigitChars[n + 1]>>
    ELSE NatToString(n \div 10) \o <<DigitChars[(n % 10) + 1]>>

\* A missing value read as the empty string.
JsStringBlankUndefined(v) ==
    CASE v.t = "undefined" -> << >>
      [] v.t = "string" -> v.s
      [] v.t = "number" -> NatToString(v.n)

\* String(v)
JsString(v) ==
    CASE v.t = "undefined" -> S_undefined
      [] v.t = "string" -> v.s
      [] v.t = "number" -> NatToString(v.n)

\* row[key]: undefined when the row has no such key.
Get(row, key) == IF key \in DOMAIN row THEN row[key] ELSE Undefined

\* --------------------------------------------------------------- validator

\* !s for a string s
IsFalsyString(s) == s = << >>

ValidateStepZeroBased(acc, assignment, index) ==
    IF IsFalsyString(assignment.orderNumber)
    THEN [acc EXCEPT !.invalid =
              Append(@, [row |-> index, reason |-> "Missing orderNumber"])]
    ELSE IF IsFalsyString(assignment.deliveryPersonId)
    THEN [acc EXCEPT !.invalid =
              Append(@, [row |-> index, reason |-> "Missing deliveryPersonId"])]
    ELSE [acc EXCEPT !.valid = Append(@, assignment)]

ValidateStepSwapped(acc, assignment, index) ==
    IF IsFalsyString(assignment.deliveryPersonId)
    THEN [acc EXCEPT !.invalid =
              Append(@, [row |-> index + 1, reason |-> "Missing deliveryPersonId"])]
    ELSE IF IsFalsyString(assignment.orderNumber)
    THEN [acc EXCEPT !.invalid =
              Append(@, [row |-> index + 1, reason |-> "Missing orderNumber"])]
    ELSE [acc EXCEPT !.valid = Append(@, assignment)]

\* The forEach callback of validateAssignments; index is 0-based.
ValidateStep(acc, assignment, index) ==
    IF IsFalsyString(assignment.orderNumber)
    THEN [acc EXCEPT !.invalid =
              Append(@, [row |-> index + 1, reason |-> "Missing orderNumber"])]
    ELSE IF IsFalsyString(assignment.deliveryPersonId)
    THEN [acc EXCEPT !.invalid =
              Append(@, [row |-> index + 1, reason |-> "Missing deliveryPersonId"])]
    ELSE [acc EXCEPT !.valid = Append(@, assignment)]

RECURSIVE ValidateFrom(_, _, _)
ValidateFrom(assignments, index, acc) ==
    IF index >= Len(assignments) THEN acc
    ELSE ValidateFrom(assignments, index + 1,
                      ValidateStep(acc, assignments[index + 1], index))

validateAssignments(assignments) ==
    ValidateFrom(assignments, 0, [valid |-> << >>, invalid |-> << >>])

\* ------------------------------------------------------------------ helpers

\* All sequences over S of length at most n.
SeqUpTo(S, n) == UNION {[1..k -> S] : k \in 0..n}

\* array.filter(pred).length
CountWhere(seq, Pred(_)) == Cardinality({i \in 1..Len(seq) : Pred(seq[i])})

\* ------------------------------------------------------------------ parser

K_orderNumber == "orderNumber"
K_OrderNumberAlt == "Order Number"
K_deliveryPersonId == "deliveryPersonId"
K_DeliveryPersonIdAlt == "Delivery Person ID"

\* The arrow function mapped over the decoded rows.
NormalizeRow(row) ==
    [orderNumber |->
        Trim(JsString(OrElse(Get(row, K_orderNumber), Get(row, K_OrderNumberAlt)))),
     deliveryPersonId |->
        Trim(JsString(OrElse(Get(row, K_deliveryPersonId),
                             Get(row, K_DeliveryPersonIdAlt))))]

\* XLSX.read + sheet_to_json on the first sheet: the rows, or a thrown error.
\* A buffer is given by what the decoder makes of it.
DecodeSpreadsheet(buffer) ==
    IF buffer.decodes
    THEN [ok |-> TRUE, value |-> buffer.rows]
    ELSE [ok |-> FALSE, error |-> [origin |-> "decoder", message |-> buffer.message]]

parseExcelFileSwallow(buffer) ==
    LET decoded == DecodeSpreadsheet(buffer) IN
    [ok |-> TRUE,
     value |-> IF decoded.ok
               THEN [i \in 1..Len(decoded.value) |-> NormalizeRow(decoded.value[i])]
               ELSE << >>]

\* The decoder's error thrown on as it is.
parseExcelFilePassThrough(buffer) ==
    LET decoded == DecodeSpreadsheet(buffer) IN
    IF decoded.ok
    THEN [ok |-> TRUE,
          value |-> [i \in 1..Len(decoded.value) |-> NormalizeRow(decoded.value[i])]]
    ELSE [ok |-> FALSE, error |-> decoded.error]

parseExcelFile(buffer) ==
    LET decoded == DecodeSpreadsheet(buffer) IN
    IF decoded.ok
    THEN [ok |-> TRUE,
          value |-> [i \in 1..Len(decoded.value) |-> NormalizeRow(decoded.value[i])]]
    ELSE [ok |-> FALSE,
          error |-> [origin |-> "parseExcelFile",
                     message |-> S_ExcelParsingFailed \o decoded.error.message]]

\* ------------------------------------------------------------- order store

Null == [t |-> "null"]
None == [t |-> "none"]

\* CT_CUSTOM_FIELDS.ORDER.DELIVERY_PERSON_ID
DELIVERY_PERSON_ID == "deliveryPersonId"

OrderIds == {"order-1", "order-2"}

\* The orders the store holds when the batches start.
InitialStore ==
    [id \in OrderIds |->
        IF id = "order-1"
        THEN [orderNumber |-> S_ORD1, version |-> 1, custom |-> << >>]
        ELSE [orderNumber |-> S_ORD2, version |-> 4, custom |-> << >>]]

\* getOrderByNumber: the order with that number, or null.
getOrderByNumber(st, orderNumber) ==
    IF \E id \in OrderIds : st[id].orderNumber = orderNumber
    THEN LET id == CHOOSE x \in OrderIds : st[x].orderNumber = orderNumber
         IN [id |-> id, orderNumber |-> orderNumber, version |-> st[id].version]
    ELSE Null

\* Whether the store accepts an update presenting this version.
VersionMatches(st, id, version) == st[id].version = version

\* updateOrderCustomFields, accepted: the fields are set, the version moves on.
ApplyUpdate(st, id, fields) ==
    [st EXCEPT ![id] = [@ EXCEPT !.version = @ + 1,
                                 !.custom = fields @@ st[id].custom]]

\* Errors the store client can throw.
LookupErrors == {[message |-> S_Network]}
TransportErrors == {[message |-> S_Timeout]}
ConflictError == [message |-> S_Conflict]

\* ------------------------------------------------------------------ inputs

\* Decoded rows a spreadsheet can hold.
Row_Ord1_D1 == (K_orderNumber :> Str(S_ORD1)) @@ (K_deliveryPersonId :> Str(S_D1))
Row_Empty_D2 == (K_orderNumber :> Str(S_Empty)) @@ (K_deliveryPersonId :> Str(S_D2))
Row_Ord3_Empty == (K_orderNumber :> Str(S_ORD3)) @@ (K_deliveryPersonId :> Str(S_Empty))
Row_Ord1_D2 == (K_orderNumber :> Str(S_ORD1)) @@ (K_deliveryPersonId :> Str(S_D2))
Row_NoKeys == << >>
Row_AltKeys ==
    (K_OrderNumberAlt :> Str(<<" ">> \o S_ORD2 \o <<" ">>))
        @@ (K_DeliveryPersonIdAlt :> Str(S_D2))
Row_BothEmpty ==
    (K_orderNumber :> Str(S_Empty)) @@ (K_OrderNumberAlt :> Str(S_Empty))
        @@ (K_deliveryPersonId :> Str(S_Blank)) @@ (K_DeliveryPersonIdAlt :> Str(S_D1))
Row_Zero_Alt ==
    (K_orderNumber :> Num(0)) @@ (K_OrderNumberAlt :> Str(S_ORD2))
        @@ (K_deliveryPersonId :> Str(S_Blank))

SampleRows ==
    {Row_Ord1_D1, Row_Empty_D2, Row_Ord3_Empty, Row_Ord1_D2, Row_NoKeys,
     Row_AltKeys, Row_BothEmpty, Row_Zero_Alt}

Buffers ==
    {[decodes |-> FALSE, message |-> S_BadFile]}
        \cup {[decodes |-> TRUE, rows |-> rows] : rows \in SeqUpTo(SampleRows, MaxRows)}

EmptyBuffer == [decodes |-> TRUE, rows |-> << >>]

\* Spreadsheets of two uploads that name the same order: the first assigns
\* D-1 to ORD-1 in every row, the second D-2.
ConcBuffers(row) ==
    {[decodes |-> TRUE, rows |-> rows] : rows \in SeqUpTo({row}, MaxConcRows)}

\* Spreadsheets of the batches followed to their end: a row for an order the
\* store has, an invalid row, and a row whose order the store lacks.
LiveRows == {Row_Ord1_D1, Row_Ord3_Empty, Row_NoKeys}

LiveBuffers ==
    {[decodes |-> FALSE, message |-> S_BadFile]}
        \cup {[decodes |-> TRUE, rows |-> rows] : rows \in SeqUpTo(LiveRows, MaxLiveRows)}

\* Rows the normalizer is applied to on its own: every choice, per key, of
\* no such key or one of these cells.
RowKeys == {K_orderNumber, K_OrderNumberAlt, K_deliveryPersonId, K_DeliveryPersonIdAlt}
SampleCells ==
    {Str(S_Empty), Str(S_Blank), Str(S_ORD1), Str(<<" ">> \o S_D2 \o <<" ">>),
     Num(0), Num(42)}
SampleCellRows ==
    {[k \in {x \in RowKeys : f[x] # Undefined} |-> f[k]] :
        f \in [RowKeys -> SampleCells \cup {Undefined}]}

\* Assignments validateAssignments is applied to on its own.
SampleStrings == {S_Empty, S_Blank, S_ORD1}
SampleAssignments == [orderNumber : SampleStrings, deliveryPersonId : SampleStrings]

\* ---------------------------------------------------------------- variables

BatchIds == {1, 2}

VARIABLES
    vin,        \* validateAssignments on its own: the argument
    vout,       \* validateAssignments on its own: the value returned, or None
    nin,        \* the row normalizer on its own: the decoded row
    nout,       \* the row normalizer on its own: the assignment made, or None
    batch,      \* per batch: the state of one assignDeliveryPersonsFromExcel call
    store,      \* the order store
    commits,    \* history: the updates the store has applied, in order
    extWrites   \* number of writes made by other parties

vars == <<vin, vout, nin, nout, batch, store, commits, extWrites>>

pureVars == <<vin, vout, nin, nout>>

storeVars == <<store, commits, extWrites>>

IdleBatch(buffer) ==
    [pc |-> "idle", buffer |-> buffer, assignments |-> << >>, valid |-> << >>,
     invalid |-> << >>, results |-> << >>, report |-> None, thrown |-> None,
     calls |-> << >>]

\* ------------------------------------------------- assignDeliveryPersonToOrder

\* The assignment the for-of loop of assignMultipleDeliveryPersons is at.
CurrentIndex(s) == Len(s.results) + 1
CurrentAssignment(s) == s.valid[CurrentIndex(s)]

NotFoundResultNoNumber(assignment) ==
    [orderNumber |-> assignment.orderNumber,
     deliveryPersonId |-> assignment.deliveryPersonId,
     success |-> FALSE,
     error |-> S_OrderNotFound]

NotFoundResult(assignment) ==
    [orderNumber |-> assignment.orderNumber,
     deliveryPersonId |-> assignment.deliveryPersonId,
     success |-> FALSE,
     error |-> S_OrderNotFound \o assignment.orderNumber]

SuccessResult(assignment) ==
    [orderNumber |-> assignment.orderNumber,
     deliveryPersonId |-> assignment.deliveryPersonId,
     success |-> TRUE]

FailureResult(assignment, error) ==
    [orderNumber |-> assignment.orderNumber,
     deliveryPersonId |-> assignment.deliveryPersonId,
     success |-> FALSE,
     error |-> error.message]

\* The custom fields passed to updateOrderCustomFields.
UpdateFields(assignment) == DELIVERY_PERSON_ID :> assignment.deliveryPersonId

LookupCall(s) ==
    [ev |-> "call", op |-> "getOrderByNumber", rec |-> CurrentIndex(s),
     orderNumber |-> CurrentAssignment(s).orderNumber]

UpdateCallNextVersion(s, order) ==
    [ev |-> "call", op |-> "updateOrderCustomFields", rec |-> CurrentIndex(s),
     id |-> order.id, version |-> order.version + 1,
     fields |-> UpdateFields(CurrentAssignment(s))]

UpdateCall(s, order) ==
    [ev |-> "call", op |-> "updateOrderCustomFields", rec |-> CurrentIndex(s),
     id |-> order.id, version |-> order.version,
     fields |-> UpdateFields(CurrentAssignment(s))]

Returned(s, op, value) ==
    [ev |-> "return", op |-> op, rec |-> CurrentIndex(s), value |-> value]

Threw(s, op, error) ==
    [ev |-> "throw", op |-> op, rec |-> CurrentIndex(s), error |-> error]

\* ------------------------------------------- assignDeliveryPersonsFromExcel

BuildReportCountsValid(s) ==
    [totalProcessed |-> Len(s.valid),
     successful |-> CountWhere(s.results, LAMBDA r : r.success),
     failed |-> CountWhere(s.results, LAMBDA r : ~r.success),
     details |-> s.results,
     invalidRows |-> s.invalid]

BuildReport(s) ==
    [totalProcessed |-> Len(s.assignments),
     successful |-> CountWhere(s.results, LAMBDA r : r.success),
     failed |-> CountWhere(s.results, LAMBDA r : ~r.success),
     details |-> s.results,
     invalidRows |-> s.invalid]

ReturnReport(s) == [s EXCEPT !.pc = "returned", !.report = BuildReport(s)]

\* catch (error) { ...; throw error; }
Rethrow(s, error) == [s EXCEPT !.pc = "thrown", !.thrown = error]

\* Every remaining lookup issued at once.
IssueLookupAll(s) ==
    [s EXCEPT !.pc = "lookup",
              !.calls = @ \o [k \in 1..(Len(s.valid) - Len(s.results)) |->
                                [ev |-> "call", op |-> "getOrderByNumber",
                                 rec |-> Len(s.results) + k,
                                 orderNumber |-> s.valid[Len(s.results) + k].orderNumber]]]

\* await this.commercetoolsService.getOrderByNumber(assignment.orderNumber)
IssueLookup(s) == [s EXCEPT !.pc = "lookup", !.calls = Append(@, LookupCall(s))]

\* await this.commercetoolsService.updateOrderCustomFields(order.id, order.version, ...)
IssueUpdate(s, order) ==
    [s EXCEPT !.pc = "update", !.calls = Append(@, UpdateCall(s, order))]

\* The for-of loop: the next assignment, or the return of the results.
LoopNext(s) == IF Len(s.results) < Len(s.valid) THEN IssueLookup(s) ELSE ReturnReport(s)

\* The result put in front of the earlier ones.
PushResultFirst(s, result) == LoopNext([s EXCEPT !.results = <<result>> \o @])

\* results.push(result)
PushResult(s, result) == LoopNext([s EXCEPT !.results = Append(@, result)])

CatchRethrow(s, error) == Rethrow(s, error)

\* The failure recorded, and the loop left.
CatchBreak(s, error) ==
    ReturnReport([s EXCEPT !.results =
                      Append(@, FailureResult(CurrentAssignment(s), error))])

\* The failure dropped, and the record reported as applied.
CatchSwallow(s, error) == PushResult(s, SuccessResult(CurrentAssignment(s)))

\* The failed record tried again, from its lookup.
CatchRetry(s, error) == IssueLookup(s)

\* The catch block of assignDeliveryPersonToOrder.
Catch(s, error) == PushResult(s, FailureResult(CurrentAssignment(s), error))

\* The order as the batch first read it, kept for its later records.
AfterLookupCached(s, order) ==
    IF order = Null
    THEN PushResult(s, NotFoundResult(CurrentAssignment(s)))
    ELSE LET first == CHOOSE j \in 1..Len(s.calls) :
                        /\ s.calls[j].ev = "return"
                        /\ s.calls[j].op = "getOrderByNumber"
                        /\ s.calls[j].value # Null
                        /\ s.calls[j].value.id = order.id
                        /\ \A i \in 1..(j - 1) :
                              ~(/\ s.calls[i].ev = "return"
                                /\ s.calls[i].op = "getOrderByNumber"
                                /\ s.calls[i].value # Null
                                /\ s.calls[i].value.id = order.id)
         IN IssueUpdate(s, s.calls[first].value)

\* The code after the await of getOrderByNumber.
AfterLookup(s, order) ==
    IF order = Null
    THEN PushResult(s, NotFoundResult(CurrentAssignment(s)))
    ELSE IssueUpdate(s, order)

\* The order read again after its update.
AfterUpdateReadBack(s) == IssueLookup(s)

\* The code after the await of updateOrderCustomFields.
AfterUpdate(s) == PushResult(s, SuccessResult(CurrentAssignment(s)))

\* The synchronous part of assignDeliveryPersonsFromExcel, up to its first await.
Begin(s) ==
    LET parsed == parseExcelFile(s.buffer) IN
    IF ~parsed.ok
    THEN Rethrow(s, parsed.error)
    ELSE LET v == validateAssignments(parsed.value) IN
         LoopNext([s EXCEPT !.assignments = parsed.value,
                            !.valid = v.valid,
                            !.invalid = v.invalid])

\* ------------------------------------------------------------------ actions

Log(s, event) == [s EXCEPT !.calls = Append(@, event)]

\* The store call a batch is awaiting: the last one it issued.
PendingCall(s) == s.calls[Len(s.calls)]

\* History: the update of a call, as the store applied it.
Commit(b, call) ==
    [by |-> b, rec |-> call.rec, id |-> call.id, expected |-> call.version,
     was |-> store[call.id].version, fields |-> call.fields]

\* The transport layer calls assignDeliveryPersonsFromExcel(buffer).
Start(b) ==
    /\ batch[b].pc = "idle"
    /\ batch' = [batch EXCEPT ![b] = Begin(@)]
    /\ UNCHANGED <<pureVars, storeVars>>

\* getOrderByNumber resolves: with the order, or with null.
LookupReturns(b) ==
    /\ batch[b].pc = "lookup"
    /\ LET s == batch[b]
           order == getOrderByNumber(store, PendingCall(s).orderNumber)
       IN batch' = [batch EXCEPT ![b] =
                        AfterLookup(Log(s, Returned(s, "getOrderByNumber", order)), order)]
    /\ UNCHANGED <<pureVars, storeVars>>

\* getOrderByNumber rejects.
LookupFails(b) ==
    /\ batch[b].pc = "lookup"
    /\ \E error \in LookupErrors :
         LET s == batch[b] IN
         batch' = [batch EXCEPT ![b] =
                       Catch(Log(s, Threw(s, "getOrderByNumber", error)), error)]
    /\ UNCHANGED <<pureVars, storeVars>>

\* updateOrderCustomFields resolves: the store has applied the update.
UpdateSucceeds(b) ==
    /\ batch[b].pc = "update"
    /\ LET s == batch[b]
           call == PendingCall(s)
       IN
       /\ VersionMatches(store, call.id, call.version)
       /\ store' = ApplyUpdate(store, call.id, call.fields)
       /\ commits' = Append(commits, Commit(b, call))
       /\ batch' = [batch EXCEPT ![b] =
                        AfterUpdate(Log(s, Returned(s, "updateOrderCustomFields",
                                                    store'[call.id])))]
    /\ UNCHANGED <<pureVars, extWrites>>

\* updateOrderCustomFields rejects: the version presented is stale.
UpdateRejected(b) ==
    /\ batch[b].pc = "update"
    /\ LET s == batch[b]
           call == PendingCall(s)
       IN
       /\ ~VersionMatches(store, call.id, call.version)
       /\ batch' = [batch EXCEPT ![b] =
                        Catch(Log(s, Threw(s, "updateOrderCustomFields", ConflictError)),
                              ConflictError)]
    /\ UNCHANGED <<pureVars, storeVars>>

\* updateOrderCustomFields rejects: the request never reached the store.
UpdateFails(b) ==
    /\ batch[b].pc = "update"
    /\ \E error \in TransportErrors :
         LET s == batch[b] IN
         batch' = [batch EXCEPT ![b] =
                       Catch(Log(s, Threw(s, "updateOrderCustomFields", error)), error)]
    /\ UNCHANGED <<pureVars, storeVars>>

\* updateOrderCustomFields rejects after the store has applied the update:
\* the reply is lost.
UpdateReplyLost(b) ==
    /\ batch[b].pc = "update"
    /\ \E error \in TransportErrors :
         LET s == batch[b]
             call == PendingCall(s)
         IN
         /\ VersionMatches(store, call.id, call.version)
         /\ store' = ApplyUpdate(store, call.id, call.fields)
         /\ commits' = Append(commits, Commit(b, call))
         /\ batch' = [batch EXCEPT ![b] =
                          Catch(Log(s, Threw(s, "updateOrderCustomFields", error)), error)]
    /\ UNCHANGED <<pureVars, extWrites>>

\* Another client of the store updates an order a batch is about to update.
ExternalWrite ==
    /\ extWrites < MaxExternalWrites
    /\ \E id \in OrderIds :
         /\ \E b \in BatchIds :
                batch[b].pc = "update" /\ PendingCall(batch[b]).id = id
         /\ store' = ApplyUpdate(store, id, DELIVERY_PERSON_ID :> S_DX)
         /\ commits' = Append(commits,
                [by |-> 0, rec |-> 0, id |-> id, expected |-> store[id].version,
                 was |-> store[id].version, fields |-> DELIVERY_PERSON_ID :> S_DX])
    /\ extWrites' = extWrites + 1
    /\ UNCHANGED <<pureVars, batch>>

\* validateAssignments applied on its own.
Validate ==
    /\ vout = None
    /\ vout' = validateAssignments(vin)
    /\ UNCHANGED <<vin, nin, nout, batch, storeVars>>

\* The row normalizer of parseExcelFile applied on its own.
Normalize ==
    /\ nout = None
    /\ nout' = NormalizeRow(nin)
    /\ UNCHANGED <<vin, vout, nin, batch, storeVars>>

\* ----------------------------------------------------------- specifications

BatchStep(b) ==
    \/ Start(b)
    \/ LookupReturns(b)
    \/ LookupFails(b)
    \/ UpdateSucceeds(b)
    \/ UpdateRejected(b)
    \/ UpdateFails(b)
    \/ UpdateReplyLost(b)

\* One batch, run on any buffer, against the store and its other clients.
Init ==
    /\ vin = << >>
    /\ vout = None
    /\ nin = << >>
    /\ nout = None
    /\ \E buffer \in Buffers :
         batch = [b \in BatchIds |-> IF b = 1 THEN IdleBatch(buffer)
                                              ELSE IdleBatch(EmptyBuffer)]
    /\ store = InitialStore
    /\ commits = << >>
    /\ extWrites = 0

Next == BatchStep(1) \/ ExternalWrite

Spec == Init /\ [][Next]_vars

\* A call the store answers: every getOrderByNumber and every
\* updateOrderCustomFields that was issued resolves or rejects in the end.
StoreResponds(b) ==
    \/ LookupReturns(b)
    \/ LookupFails(b)
    \/ UpdateSucceeds(b)
    \/ UpdateRejected(b)
    \/ UpdateFails(b)
    \/ UpdateReplyLost(b)

InitLive ==
    /\ vin = << >>
    /\ vout = None
    /\ nin = << >>
    /\ nout = None
    /\ \E buffer \in LiveBuffers :
         batch = [b \in BatchIds |-> IF b = 1 THEN IdleBatch(buffer)
                                              ELSE IdleBatch(EmptyBuffer)]
    /\ store = InitialStore
    /\ commits = << >>
    /\ extWrites = 0

SpecLive == InitLive /\ [][Next]_vars /\ WF_vars(StoreResponds(1))

\* validateAssignments on any list of assignments.
InitValidate ==
    /\ vin \in SeqUpTo(SampleAssignments, MaxLen)
    /\ vout = None
    /\ nin = << >>
    /\ nout = None
    /\ batch = [b \in BatchIds |-> IdleBatch(EmptyBuffer)]
    /\ store = InitialStore
    /\ commits = << >>
    /\ extWrites = 0

NextValidate == Validate

SpecValidate == InitValidate /\ [][NextValidate]_vars

\* Two batches at the same time on spreadsheets that name the same order; no
\* other client writes to the store.
InitConc ==
    /\ vin = << >>
    /\ vout = None
    /\ nin = << >>
    /\ nout = None
    /\ \E b1 \in ConcBuffers(Row_Ord1_D1), b2 \in ConcBuffers(Row_Ord1_D2) :
         batch = [b \in BatchIds |-> IF b = 1 THEN IdleBatch(b1) ELSE IdleBatch(b2)]
    /\ store = InitialStore
    /\ commits = << >>
    /\ extWrites = 0

NextConc == \E b \in BatchIds : BatchStep(b)

SpecConc == InitConc /\ [][NextConc]_vars

\* The row normalizer on any decoded row.
InitNormalize ==
    /\ vin = << >>
    /\ vout = None
    /\ nin \in SampleCellRows
    /\ nout = None
    /\ batch = [b \in BatchIds |-> IdleBatch(EmptyBuffer)]
    /\ store = InitialStore
    /\ commits = << >>
    /\ extWrites = 0

NextNormalize == Normalize

SpecNormalize == InitNormalize /\ [][NextNormalize]_vars

\* ------------------------------------------------------------------ claims

HasEvent(s, Pred(_)) == \E j \in 1..Len(s.calls) : Pred(s.calls[j])

IsLookupCall(e) == e.ev = "call" /\ e.op = "getOrderByNumber"
IsUpdateCall(e) == e.ev = "call" /\ e.op = "updateOrderCustomFields"
IsLookupReturn(e) == e.ev = "return" /\ e.op = "getOrderByNumber"
IsUpdateReturn(e) == e.ev = "return" /\ e.op = "updateOrderCustomFields"
IsThrow(e) == e.ev = "throw"

\* C1: the report a batch returns accounts for every decoded record once:
\* totalProcessed = |details| + |invalidRows| and successful + failed = |details|.
C1_ReportCounts ==
    \A b \in BatchIds :
        batch[b].pc = "returned" =>
            LET r == batch[b].report IN
            /\ r.totalProcessed = Len(r.details) + Len(r.invalidRows)
            /\ r.successful + r.failed = Len(r.details)

\* A report with invalid rows, a success and a failure.
C1_Witness ==
    \E b \in BatchIds :
        /\ batch[b].pc = "returned"
        /\ batch[b].report.invalidRows # << >>
        /\ batch[b].report.successful > 0
        /\ batch[b].report.failed > 0

\* C2: once the buffer has decoded the batch never throws, whatever the store
\* does: a batch that has thrown was given a buffer that does not decode, and a
\* batch on a decoded buffer that has ended has returned a report that covers
\* every decoded record.
C2_ThrowsOnlyOnDecodeFailure ==
    \A b \in BatchIds :
        LET s == batch[b] IN
        /\ s.pc = "thrown" => ~DecodeSpreadsheet(s.buffer).ok
        /\ (DecodeSpreadsheet(s.buffer).ok /\ s.pc \notin {"idle", "lookup", "update"}) =>
              /\ s.pc = "returned"
              /\ s.thrown = None
              /\ s.report # None
              /\ s.report.totalProcessed = Len(DecodeSpreadsheet(s.buffer).value)
              /\ Len(s.report.details) = Len(s.valid)

\* A batch that returned although a lookup failed and an update was rejected
\* as stale.
C2_Witness ==
    \E b \in BatchIds :
        /\ batch[b].pc = "returned"
        /\ HasEvent(batch[b], LAMBDA e : IsThrow(e) /\ e.op = "getOrderByNumber")
        /\ HasEvent(batch[b], LAMBDA e : IsThrow(e) /\ e.error = ConflictError)

\* C3: when the buffer does not decode, the batch ends with a thrown error and
\* no report, has called the store not once, and the store is as it was.
C3_DecodeFailureTouchesNothing ==
    \A b \in BatchIds :
        LET s == batch[b] IN
        (~DecodeSpreadsheet(s.buffer).ok /\ s.pc # "idle") =>
            /\ s.pc = "thrown"
            /\ s.thrown # None
            /\ s.report = None
            /\ s.calls = << >>
            /\ \A k \in 1..Len(commits) : commits[k].by # b
            /\ store = InitialStore

C3_Witness ==
    \E b \in BatchIds :
        /\ ~DecodeSpreadsheet(batch[b].buffer).ok
        /\ batch[b].pc = "thrown"

\* An entry of invalid names row i with this reason.
InvalidAt(invalid, i, reason) ==
    \E k \in 1..Len(invalid) : invalid[k].row = i /\ invalid[k].reason = reason

\* The number of entries of invalid that name row i.
InvalidEntries(invalid, i) == Cardinality({k \in 1..Len(invalid) : invalid[k].row = i})

MissesOrderNumber(a) == a.orderNumber = << >>
MissesOnlyDeliveryPersonId(a) == a.orderNumber # << >> /\ a.deliveryPersonId = << >>
IsComplete(a) == a.orderNumber # << >> /\ a.deliveryPersonId # << >>

\* C4: validateAssignments classifies each record on its own, first check
\* first: an empty orderNumber gives 'Missing orderNumber' (also when the
\* deliveryPersonId is empty too), else an empty deliveryPersonId gives
\* 'Missing deliveryPersonId', else the record is valid; records after an
\* invalid one are classified all the same.
C4_FirstCheckWins ==
    vout # None =>
        /\ \A i \in 1..Len(vin) :
            /\ MissesOrderNumber(vin[i]) =>
                  /\ InvalidAt(vout.invalid, i, "Missing orderNumber")
                  /\ InvalidEntries(vout.invalid, i) = 1
            /\ MissesOnlyDeliveryPersonId(vin[i]) =>
                  /\ InvalidAt(vout.invalid, i, "Missing deliveryPersonId")
                  /\ InvalidEntries(vout.invalid, i) = 1
            /\ IsComplete(vin[i]) =>
                  /\ InvalidEntries(vout.invalid, i) = 0
                  /\ \E k \in 1..Len(vout.valid) : vout.valid[k] = vin[i]
        /\ Len(vout.valid) = Cardinality({i \in 1..Len(vin) : IsComplete(vin[i])})

\* A record missing both fields, then one missing only the deliveryPersonId,
\* then a complete one.
C4_Witness ==
    /\ vout # None
    /\ Len(vin) = 3
    /\ vin[1].orderNumber = << >> /\ vin[1].deliveryPersonId = << >>
    /\ MissesOnlyDeliveryPersonId(vin[2])
    /\ IsComplete(vin[3])
    /\ Len(vout.valid) = 1

\* C5: validateAssignments puts each of the n inputs in exactly one of valid
\* and invalid; the k-th invalid entry carries the 1-based input index of the
\* k-th incomplete record (so the rows increase); valid holds the complete
\* records in input order.
C5_PartitionKeepsPositions ==
    vout # None =>
        /\ Len(vout.valid) + Len(vout.invalid) = Len(vin)
        /\ \A k \in 1..Len(vout.invalid) :
            LET row == vout.invalid[k].row IN
            /\ row \in 1..Len(vin)
            /\ ~IsComplete(vin[row])
            /\ Cardinality({i \in 1..row : ~IsComplete(vin[i])}) = k
        /\ \A k \in 1..(Len(vout.invalid) - 1) :
            vout.invalid[k].row < vout.invalid[k + 1].row
        /\ vout.valid = SelectSeq(vin, IsComplete)

\* Invalid records on both sides of a valid one.
C5_Witness ==
    /\ vout # None
    /\ Len(vin) = 3
    /\ ~IsComplete(vin[1]) /\ IsComplete(vin[2]) /\ ~IsComplete(vin[3])
    /\ Len(vout.invalid) = 2
    /\ vout.invalid[2].row = 3

\* A decoded row whose orderNumber cell is the empty string.
EmptyOrderNumberCell(row) == Get(row, K_orderNumber) = Str(S_Empty)

\* A decoded row with an orderNumber and an empty-string deliveryPersonId cell.
EmptyDeliveryPersonIdCell(row) ==
    /\ ~EmptyOrderNumberCell(row)
    /\ Truthy(Get(row, K_orderNumber))
    /\ Get(row, K_deliveryPersonId) = Str(S_Empty)

\* C6: through parse, validate and apply, every row whose orderNumber cell is
\* '' is reported in invalidRows with its 1-based index and 'Missing
\* orderNumber', every row with an orderNumber and a '' deliveryPersonId cell
\* with 'Missing deliveryPersonId', and no such row is looked up or counted in
\* details.
C6_EmptyCellsReportedInvalid ==
    \A b \in BatchIds :
        batch[b].pc = "returned" =>
            LET rows == DecodeSpreadsheet(batch[b].buffer).value
                r == batch[b].report
            IN
            /\ \A i \in 1..Len(rows) :
                /\ EmptyOrderNumberCell(rows[i]) =>
                      InvalidAt(r.invalidRows, i, "Missing orderNumber")
                /\ EmptyDeliveryPersonIdCell(rows[i]) =>
                      InvalidAt(r.invalidRows, i, "Missing deliveryPersonId")
            /\ Len(r.details) <=
                  Cardinality({i \in 1..Len(rows) :
                                  /\ ~EmptyOrderNumberCell(rows[i])
                                  /\ ~EmptyDeliveryPersonIdCell(rows[i])})
            /\ Cardinality({j \in 1..Len(batch[b].calls) :
                               IsLookupCall(batch[b].calls[j])}) <=
                  Cardinality({i \in 1..Len(rows) :
                                  /\ ~EmptyOrderNumberCell(rows[i])
                                  /\ ~EmptyDeliveryPersonIdCell(rows[i])})

\* C7: when the lookup for a record returns no order, the record's outcome
\* carries its orderNumber and deliveryPersonId, success = false and error =
\* 'Order not found: ' + orderNumber, and no update is issued or applied for it.
C7_NotFoundOutcome ==
    \A b \in BatchIds :
        LET s == batch[b] IN
        \A j \in 1..Len(s.calls) :
            LET e == s.calls[j] IN
            (IsLookupReturn(e) /\ e.value = Null) =>
                /\ Len(s.results) >= e.rec
                /\ s.results[e.rec] =
                      [orderNumber |-> s.valid[e.rec].orderNumber,
                       deliveryPersonId |-> s.valid[e.rec].deliveryPersonId,
                       success |-> FALSE,
                       error |-> S_OrderNotFound \o s.valid[e.rec].orderNumber]
                /\ ~HasEvent(s, LAMBDA u : IsUpdateCall(u) /\ u.rec = e.rec)
                /\ \A k \in 1..Len(commits) :
                      ~(commits[k].by = b /\ commits[k].rec = e.rec)

\* A lookup has returned null and the batch has returned its report.
C7_Witness ==
    \E b \in BatchIds :
        /\ batch[b].pc = "returned"
        /\ HasEvent(batch[b], LAMBDA e : IsLookupReturn(e) /\ e.value = Null)

\* C8: when the lookup for a record returns an order, exactly one update is
\* issued for the record, right after, with that order's id, the version that
\* lookup returned and the one field deliveryPersonId set to the record's; when
\* the update resolves, the outcome carries the record's orderNumber and
\* deliveryPersonId, success = true and no error field.
C8_FoundOrderUpdatedOnce ==
    \A b \in BatchIds :
        LET s == batch[b] IN
        \A j \in 1..Len(s.calls) :
            LET e == s.calls[j] IN
            /\ (IsLookupReturn(e) /\ e.value # Null) =>
                  /\ Cardinality({i \in 1..Len(s.calls) :
                                     IsUpdateCall(s.calls[i]) /\ s.calls[i].rec = e.rec}) = 1
                  /\ j < Len(s.calls)
                  /\ IsUpdateCall(s.calls[j + 1])
                  /\ s.calls[j + 1].rec = e.rec
                  /\ s.calls[j + 1].id = e.value.id
                  /\ s.calls[j + 1].version = e.value.version
                  /\ DOMAIN s.calls[j + 1].fields = {"deliveryPersonId"}
                  /\ s.calls[j + 1].fields["deliveryPersonId"] =
                        s.valid[e.rec].deliveryPersonId
            /\ IsUpdateReturn(e) =>
                  /\ Len(s.results) >= e.rec
                  /\ s.results[e.rec] =
                        [orderNumber |-> s.valid[e.rec].orderNumber,
                         deliveryPersonId |-> s.valid[e.rec].deliveryPersonId,
                         success |-> TRUE]
                  /\ "error" \notin DOMAIN s.results[e.rec]

\* An update has resolved for a record whose lookup returned an order.
C8_Witness ==
    \E b \in BatchIds :
        /\ HasEvent(batch[b], IsUpdateReturn)
        /\ HasEvent(batch[b], LAMBDA e : IsLookupReturn(e) /\ e.value # Null)

\* C9: a lookup or update that fails for record i becomes that record's
\* outcome, success = false with the failure's message, and the batch goes on:
\* the next valid record is looked up, and a batch that returned has looked up
\* and recorded every valid record.
C9_FailuresBecomeOutcomes ==
    \A b \in BatchIds :
        LET s == batch[b] IN
        /\ \A j \in 1..Len(s.calls) :
            LET e == s.calls[j] IN
            IsThrow(e) =>
                /\ s.pc # "thrown"
                /\ Len(s.results) >= e.rec
                /\ s.results[e.rec] =
                      [orderNumber |-> s.valid[e.rec].orderNumber,
                       deliveryPersonId |-> s.valid[e.rec].deliveryPersonId,
                       success |-> FALSE,
                       error |-> e.error.message]
                /\ e.rec < Len(s.valid) =>
                      /\ j < Len(s.calls)
                      /\ IsLookupCall(s.calls[j + 1])
                      /\ s.calls[j + 1].rec = e.rec + 1
                      /\ s.calls[j + 1].orderNumber = s.valid[e.rec + 1].orderNumber
        /\ s.pc = "returned" =>
            /\ Len(s.results) = Len(s.valid)
            /\ \A k \in 1..Len(s.valid) :
                  HasEvent(s, LAMBDA e : IsLookupCall(e) /\ e.rec = k)

\* A batch whose first record failed and whose later record succeeded.
C9_Witness ==
    \E b \in BatchIds :
        /\ batch[b].pc = "returned"
        /\ HasEvent(batch[b], LAMBDA e : IsThrow(e) /\ e.rec = 1)
        /\ \E k \in 2..Len(batch[b].results) : batch[b].results[k].success

\* The store calls a batch has issued and not yet seen return.
InFlight(s) ==
    Cardinality({j \in 1..Len(s.calls) : s.calls[j].ev = "call"})
        - Cardinality({j \in 1..Len(s.calls) : s.calls[j].ev # "call"})

\* C10: within a batch the store calls are sequential and in input order: calls
\* and their returns alternate, at most one call is in flight, the lookups
\* issued are the orderNumbers of the valid records in input order (none for
\* an invalid row), and an update follows the return of its own lookup.
C10_StoreCallsSequential ==
    \A b \in BatchIds :
        LET s == batch[b]
            lookups == SelectSeq(s.calls, IsLookupCall)
        IN
        /\ InFlight(s) <= 1
        /\ InFlight(s) = 1 <=> s.pc \in {"lookup", "update"}
        /\ \A j \in 1..Len(s.calls) :
            /\ s.calls[j].ev = "call" <=> j % 2 = 1
            /\ s.calls[j].ev # "call" =>
                  s.calls[j].op = s.calls[j - 1].op /\ s.calls[j].rec = s.calls[j - 1].rec
            /\ IsUpdateCall(s.calls[j]) =>
                  IsLookupReturn(s.calls[j - 1]) /\ s.calls[j - 1].rec = s.calls[j].rec
            /\ (IsLookupCall(s.calls[j]) /\ j > 1) =>
                  s.calls[j - 1].rec = s.calls[j].rec - 1
        /\ s.valid = SelectSeq(s.assignments, IsComplete)
        /\ Len(lookups) <= Len(s.valid)
        /\ \A k \in 1..Len(lookups) :
              lookups[k].rec = k /\ lookups[k].orderNumber = s.valid[k].orderNumber
        /\ s.pc = "returned" => Len(lookups) = Len(s.valid)

\* A batch with an invalid row that has gone through two records, one of them
\* updated.
C10_Witness ==
    \E b \in BatchIds :
        /\ batch[b].pc = "returned"
        /\ batch[b].invalid # << >>
        /\ Len(batch[b].valid) = 2
        /\ HasEvent(batch[b], IsUpdateReturn)

\* The field the normalizer makes of a cell: String(cell).trim().
TrimmedString(cell) == Trim(JsString(cell))

\* C11: per field, the first key present in the row wins: when the canonical
\* key is present the field is the trimmed string of its value, whatever the
\* value (0 and '' included) and whatever the fallback key holds; the fallback
\* key is used only when the canonical key is absent.
C11_FirstPresentKeyWins ==
    nout # None =>
        /\ K_orderNumber \in DOMAIN nin =>
              nout.orderNumber = TrimmedString(nin[K_orderNumber])
        /\ (K_orderNumber \notin DOMAIN nin /\ K_OrderNumberAlt \in DOMAIN nin) =>
              nout.orderNumber = TrimmedString(nin[K_OrderNumberAlt])
        /\ K_deliveryPersonId \in DOMAIN nin =>
              nout.deliveryPersonId = TrimmedString(nin[K_deliveryPersonId])
        /\ (K_deliveryPersonId \notin DOMAIN nin /\ K_DeliveryPersonIdAlt \in DOMAIN nin) =>
              nout.deliveryPersonId = TrimmedString(nin[K_DeliveryPersonIdAlt])

\* The row has neither key of the field.
LacksOrderNumberKeys(row) ==
    K_orderNumber \notin DOMAIN row /\ K_OrderNumberAlt \notin DOMAIN row
LacksDeliveryPersonIdKeys(row) ==
    K_deliveryPersonId \notin DOMAIN row /\ K_DeliveryPersonIdAlt \notin DOMAIN row

\* The place in valid of the i-th assignment, when it is complete.
ValidPosition(s, i) == Cardinality({j \in 1..i : IsComplete(s.assignments[j])})

\* C12: a row with neither key of a field still gives exactly one assignment,
\* whose field is the string 'undefined'; the validator does not find that
\* field missing, and a row so classified valid is applied: a lookup is issued
\* for the order number 'undefined'.
C12_MissingKeysBecomeUndefined ==
    \A b \in BatchIds :
        LET s == batch[b]
            decoded == DecodeSpreadsheet(s.buffer)
        IN
        (decoded.ok /\ s.pc # "idle") =>
            /\ Len(s.assignments) = Len(decoded.value)
            /\ \A i \in 1..Len(decoded.value) :
                LET row == decoded.value[i] IN
                /\ LacksOrderNumberKeys(row) =>
                      /\ s.assignments[i].orderNumber = S_undefined
                      /\ ~InvalidAt(s.invalid, i, "Missing orderNumber")
                /\ LacksDeliveryPersonIdKeys(row) =>
                      /\ s.assignments[i].deliveryPersonId = S_undefined
                      /\ ~InvalidAt(s.invalid, i, "Missing deliveryPersonId")
                /\ (LacksOrderNumberKeys(row) /\ IsComplete(s.assignments[i])) =>
                      /\ InvalidEntries(s.invalid, i) = 0
                      /\ s.valid[ValidPosition(s, i)] = s.assignments[i]
                      /\ s.pc = "returned" =>
                            HasEvent(s, LAMBDA e : /\ IsLookupCall(e)
                                                   /\ e.rec = ValidPosition(s, i)
                                                   /\ e.orderNumber = S_undefined)

\* A row without any key has been looked up as order 'undefined', after a
\* valid row.
C12_Witness ==
    \E b \in BatchIds :
        /\ batch[b].pc = "returned"
        /\ \E i \in 2..Len(batch[b].buffer.rows) : batch[b].buffer.rows[i] = << >>
        /\ HasEvent(batch[b], LAMBDA e : /\ IsLookupCall(e)
                                         /\ e.rec > 1
                                         /\ e.orderNumber = S_undefined)

\* C13 as stated: the error the caller of assignDeliveryPersonsFromExcel
\* observes is the very error the decoder raised, with the same message.
C13_DecoderErrorUnmodified ==
    \A b \in BatchIds :
        batch[b].pc = "thrown" =>
            /\ batch[b].thrown = DecodeSpreadsheet(batch[b].buffer).error
            /\ batch[b].thrown.message = DecodeSpreadsheet(batch[b].buffer).error.message

\* C13, amended: the error the caller observes is a new error made by
\* parseExcelFile, whose message is 'Excel parsing failed: ' followed by the
\* message of the decoder's error; assignDeliveryPersonsFromExcel throws that
\* error on unchanged.
C13_DecoderErrorWrapped ==
    \A b \in BatchIds :
        batch[b].pc = "thrown" =>
            /\ batch[b].thrown.origin = "parseExcelFile"
            /\ batch[b].thrown.message =
                  S_ExcelParsingFailed \o DecodeSpreadsheet(batch[b].buffer).error.message

\* A batch has thrown on a buffer the decoder rejected with 'bad file'.
C13_Witness ==
    \E b \in BatchIds :
        /\ batch[b].pc = "thrown"
        /\ ~batch[b].buffer.decodes
        /\ batch[b].buffer.message = S_BadFile
        /\ Len(batch[b].thrown.message) = Len(S_ExcelParsingFailed) + Len(S_BadFile)

\* The commits the store has applied for record k of batch b.
CommitsOf(b, k) == {c \in 1..Len(commits) : commits[c].by = b /\ commits[c].rec = k}

\* The number of calls of this kind a batch has issued for its record k.
CallsFor(s, k, IsKind(_)) ==
    Cardinality({j \in 1..Len(s.calls) : IsKind(s.calls[j]) /\ s.calls[j].rec = k})

\* C14: with two batches on the same order and a store that rejects a stale
\* version: a batch whose order another party has updated since its lookup has
\* its update rejected, reports the record failed and does not retry it (one
\* lookup and one update per record at most); every outcome with success = true
\* has a commit made while the stored version was the version that batch read.
C14_StaleUpdateRejectedNotRetried ==
    /\ \A c \in 1..Len(commits) : commits[c].was = commits[c].expected
    /\ \A b \in BatchIds :
        LET s == batch[b] IN
        /\ \A k \in 1..Len(s.valid) :
            /\ CallsFor(s, k, IsLookupCall) <= 1
            /\ CallsFor(s, k, IsUpdateCall) <= 1
        /\ \A j \in 1..Len(s.calls) :
            LET e == s.calls[j] IN
            /\ (IsThrow(e) /\ e.error = ConflictError) =>
                  /\ ~s.results[e.rec].success
                  /\ s.results[e.rec].error = S_Conflict
                  /\ CommitsOf(b, e.rec) = {}
            /\ (IsUpdateCall(e) /\ Len(s.results) >= e.rec
                  /\ \E c \in 1..Len(commits) :
                        /\ commits[c].by # b
                        /\ commits[c].id = e.id
                        /\ commits[c].was = e.version) =>
                  /\ ~s.results[e.rec].success
                  /\ CommitsOf(b, e.rec) = {}
        /\ \A k \in 1..Len(s.results) :
            s.results[k].success =>
                \E c \in CommitsOf(b, k) :
                    /\ commits[c].was = commits[c].expected
                    /\ HasEvent(s, LAMBDA e : /\ IsLookupReturn(e)
                                              /\ e.rec = k
                                              /\ e.value # Null
                                              /\ e.value.id = commits[c].id
                                              /\ e.value.version = commits[c].expected)

\* One batch has had an update rejected as stale because the other batch
\* committed first, and both have returned their reports.
C14_Witness ==
    /\ \A b \in BatchIds : batch[b].pc = "returned"
    /\ \E b \in BatchIds :
        /\ HasEvent(batch[b], LAMBDA e : IsThrow(e) /\ e.error = ConflictError)
        /\ \E c \in 1..Len(commits) : commits[c].by # b
        /\ \E k \in 1..Len(batch[b].results) : batch[b].results[k].success

\* C15: details holds one outcome per valid assignment, none for an invalid
\* row, in the input order of the valid assignments: details[i] carries the
\* orderNumber and deliveryPersonId of the i-th valid assignment, whatever the
\* mix of successes and failures.
C15_DetailsFollowValidOrder ==
    \A b \in BatchIds :
        LET s == batch[b] IN
        s.pc = "returned" =>
            /\ s.valid = SelectSeq(s.assignments, IsComplete)
            /\ Len(s.report.details) = Len(s.valid)
            /\ Len(s.report.details) + Len(s.report.invalidRows) = Len(s.assignments)
            /\ \A i \in 1..Len(s.valid) :
                /\ s.report.details[i].orderNumber = s.valid[i].orderNumber
                /\ s.report.details[i].deliveryPersonId = s.valid[i].deliveryPersonId

\* A report over an invalid row and two valid assignments that differ, one
\* of them failed and the other applied.
C15_Witness ==
    \E b \in BatchIds :
        LET s == batch[b] IN
        /\ s.pc = "returned"
        /\ s.invalid # << >>
        /\ Len(s.valid) = 2
        /\ s.valid[1] # s.valid[2]
        /\ s.report.successful = 1
        /\ s.report.failed = 1

\* C16: a batch always ends. When every call issued to the store resolves or
\* rejects in the end, a call of assignDeliveryPersonsFromExcel that was made
\* returns its report or throws the parse error, and at every moment it has
\* issued one lookup and one update at most for each valid assignment.
Ended(s) == s.pc \in {"returned", "thrown"}

AtMostOneCallPerRecord(s) ==
    /\ \A k \in 1..Len(s.valid) :
        /\ CallsFor(s, k, IsLookupCall) <= 1
        /\ CallsFor(s, k, IsUpdateCall) <= 1
    /\ \A j \in 1..Len(s.calls) : s.calls[j].rec \in 1..Len(s.valid)
    /\ (s.pc = "thrown") => (s.calls = << >>)

C16_BatchAlwaysEnds ==
    /\ [](AtMostOneCallPerRecord(batch[1]))
    /\ (batch[1].pc # "idle") ~> Ended(batch[1])
    /\ [](Ended(batch[1]) => [](Ended(batch[1])))

\* A batch that returned after two lookups and an update.
C16_Witness ==
    /\ batch[1].pc = "returned"
    /\ Len(batch[1].valid) = 2
    /\ CountWhere(batch[1].calls, IsLookupCall) = 2
    /\ CountWhere(batch[1].calls, IsUpdateCall) >= 1

\* The positions among the valid assignments of a batch that name this order.
RecordsNaming(s, id) ==
    {k \in 1..Len(s.valid) : s.valid[k].orderNumber = store[id].orderNumber}

Last(ks) == CHOOSE k \in ks : \A j \in ks : j <= k

C17_WitnessAfterLostReply ==
    LET s == batch[1] IN
    /\ extWrites = 0
    /\ s.pc = "returned"
    /\ Len(s.results) = 2
    /\ ~s.results[1].success
    /\ CommitsOf(1, 1) # {}
    /\ s.results[2].success

\* The updates of a batch the store applied.
CommitsBy(b) == {c \in 1..Len(commits) : commits[c].by = b}

\* The records of a batch reported as failed whose update the store applied.
FailedButApplied(b) ==
    {k \in 1..Len(batch[b].results) :
        ~batch[b].results[k].success /\ CommitsOf(b, k) # {}}

\* C18 as stated: a record reported with success = false did not change the
\* store, and the report's successful count is the number of updates of the
\* batch the store applied. Violated when the store applies an update and the
\* request then fails in transport.
C18_ReportAgreesWithStore ==
    LET s == batch[1] IN
    /\ \A k \in 1..Len(s.results) : ~s.results[k].success => CommitsOf(1, k) = {}
    /\ (s.pc = "returned") => s.report.successful = Cardinality(CommitsBy(1))

\* C18: a record reported with success = true changed the store once, with
\* its own deliveryPersonId, at the version it read; a record reported as
\* failed changed the store only when its update request failed in transport
\* after the store applied it; and the report's successful count is the number
\* of updates the store applied less those records.
C18_SuccessMeansCommitted ==
    LET s == batch[1] IN
    /\ \A k \in 1..Len(s.results) :
        /\ s.results[k].success =>
              /\ Cardinality(CommitsOf(1, k)) = 1
              /\ \A c \in CommitsOf(1, k) :
                    /\ commits[c].fields = UpdateFields(s.valid[k])
                    /\ commits[c].was = commits[c].expected
        /\ (~s.results[k].success /\ CommitsOf(1, k) # {}) =>
              /\ Cardinality(CommitsOf(1, k)) = 1
              /\ HasEvent(s, LAMBDA e : /\ IsThrow(e)
                                        /\ e.rec = k
                                        /\ e.op = "updateOrderCustomFields"
                                        /\ e.error \in TransportErrors)
    /\ (s.pc = "returned") =>
          /\ s.report.successful <= Cardinality(CommitsBy(1))
          /\ s.report.successful + Cardinality(FailedButApplied(1)) = Cardinality(CommitsBy(1))

\* A report with an applied record and a record reported as failed whose
\* update the store had applied.
C18_Witness ==
    LET s == batch[1] IN
    /\ s.pc = "returned"
    /\ s.report.successful = 1
    /\ FailedButApplied(1) # {}
    /\ Cardinality(CommitsBy(1)) = 2

====
